---- MODULE Spec2Model ----
(***************************************************************************)
(* Model of uni_form/helpers.py: the FormHelper configuration object and   *)
(* the recursive rendering of a Layout tree through render_field.          *)
(*                                                                         *)
(* Python strings that are lower-cased or stripped are sequences of        *)
(* one-character strings, so that lower() and strip() are computed.        *)
(* Form field names are atomic strings.  Markup is a sequence of tokens,   *)
(* one per tag or rendered template; CSS ids and classes are not modelled. *)
(***************************************************************************)
EXTENDS Integers, Sequences, FiniteSets, TLC

VARIABLES
    _form_method,          \* FormHelper._form_method
    _form_action,          \* FormHelper._form_action
    _form_style,           \* FormHelper._form_style
    form_id,               \* FormHelper.form_id
    form_class,            \* FormHelper.form_class
    inputs,                \* FormHelper.inputs
    layout,                \* FormHelper.layout
    form_tag,              \* FormHelper.form_tag
    form_error_title,      \* FormHelper.form_error_title
    formset_error_title,   \* FormHelper.formset_error_title
    FAIL_SILENTLY,         \* settings.UNIFORM_FAIL_SILENTLY
    form_fields,           \* form.fields.keys(), in the form's order
    rendered_fields,       \* form.rendered_fields
    op,                    \* the last call made
    arg,                   \* the value passed to a validating setter (None otherwise)
    ret,                   \* its return value when that is a string
    items,                 \* the dict returned by get_attributes
    html,                  \* the markup returned by render_layout
    exc                    \* the exception the last call raised

helperVars == <<_form_method, _form_action, _form_style, form_id, form_class,
                inputs, layout, form_tag, form_error_title, formset_error_title>>
formVars == <<FAIL_SILENTLY, form_fields, rendered_fields>>
callVars == <<op, arg, ret, items, html, exc>>
vars == <<helperVars, formVars, callVars>>

----------------------------------------------------------------------------
(* Bounds *)

MaxInputs == 1     \* add_input is called at most this many times
MaxNodes == 3      \* layout objects and field names below the top Layout

----------------------------------------------------------------------------
(* Python values *)

None == <<"None">>            \* not a character sequence: every character is one letter long
EmptyDict == [k \in {} |-> None]
NoExc == "none"

\* FormHelper.layout before add_layout: None, which has no render
NoLayout == [kind |-> "None", name |-> "", fields |-> <<>>]

UpperCase == <<"A","B","C","D","E","F","G","H","I","J","K","L","M",
               "N","O","P","Q","R","S","T","U","V","W","X","Y","Z">>
LowerCase == <<"a","b","c","d","e","f","g","h","i","j","k","l","m",
               "n","o","p","q","r","s","t","u","v","w","x","y","z">>
Whitespace == {" ", "\t", "\n"}

lowerChar(c) ==
    IF \E i \in 1..Len(UpperCase) : UpperCase[i] = c
    THEN LowerCase[CHOOSE i \in 1..Len(UpperCase) : UpperCase[i] = c]
    ELSE c

\* str.lower()
lower(s) == [i \in 1..Len(s) |-> lowerChar(s[i])]

RECURSIVE lstrip(_)
lstrip(s) == IF s # <<>> /\ Head(s) \in Whitespace THEN lstrip(Tail(s)) ELSE s

RECURSIVE rstrip(_)
rstrip(s) ==
    IF s # <<>> /\ s[Len(s)] \in Whitespace THEN rstrip(SubSeq(s, 1, Len(s) - 1)) ELSE s

\* str.strip()
strip(s) == rstrip(lstrip(s))

\* truth value of a string, a list or None in an `if`
Truthy(v) == v # None /\ v # <<>>

----------------------------------------------------------------------------
(* String literals *)

s_get == <<"g","e","t">>
s_post == <<"p","o","s","t">>
s_default == <<"d","e","f","a","u","l","t">>
s_inline == <<"i","n","l","i","n","e">>
s_inlineLabels == <<"i","n","l","i","n","e","L","a","b","e","l","s">>
s_empty == <<>>

\* values passed to the form_method setter
MethodArgs ==
    { <<"G","E","T">>, <<"P","o","s","T">>, <<"P","U","T">>, <<" ","g","e","t">>, s_empty }

\* values passed to the form_style setter
StyleArgs ==
    { <<"D","e","f","a","u","l","t">>, <<"I","n","L","I","N","E">>, s_inlineLabels, s_empty }

\* the URLconf: url(r'^p/$', ..., name='prof')
urlpatterns == (<<"p","r","o","f">> :> <<"/","p","/">>)

\* values passed to the form_action setter: a name of the URLconf, a URL, ''
ActionArgs == { <<"p","r","o","f">>, <<"/","w","/"," ">>, s_empty }

IdArgs == { s_empty, <<"i","d"," ">> }
ClassArgs == { s_empty, <<"c"," ","d">> }
TitleArgs == { None, s_empty, <<"O","o","p","s","!"," ">> }
FormsetTitleArgs == { None, <<"E","r","r">> }
InputObjects == { "Submit" }

----------------------------------------------------------------------------
(* FormHelper *)

\* django.core.urlresolvers.reverse: the URL of a named pattern, NoReverseMatch otherwise
reverse(viewname) ==
    IF viewname \in DOMAIN urlpatterns
    THEN [exc |-> NoExc, val |-> urlpatterns[viewname]]
    ELSE [exc |-> "NoReverseMatch", val |-> None]

get_form_method == [exc |-> NoExc, val |-> _form_method]

\* the getter without its except clause
get_form_action_uncaught == reverse(_form_action)

get_form_action ==
    LET r == reverse(_form_action)
    IN  IF r.exc = "NoReverseMatch" THEN [exc |-> NoExc, val |-> _form_action] ELSE r

\* the getter comparing against the capitalised name of the inline style
get_form_style_capitalised ==
    IF _form_style = s_default THEN [exc |-> NoExc, val |-> s_empty]
    ELSE IF _form_style = <<"I","n","l","i","n","e">>
         THEN [exc |-> NoExc, val |-> s_inlineLabels]
    ELSE [exc |-> NoExc, val |-> None]

\* falls off the end, returning None, when the style is neither of the two
get_form_style ==
    IF _form_style = s_default THEN [exc |-> NoExc, val |-> s_empty]
    ELSE IF _form_style = s_inline THEN [exc |-> NoExc, val |-> s_inlineLabels]
    ELSE [exc |-> NoExc, val |-> None]

\* the state a call leaves behind: what it returned or raised
Returns(name, a, r, e) ==
    /\ op' = name
    /\ arg' = a
    /\ ret' = r
    /\ exc' = e
    /\ items' = EmptyDict
    /\ html' = <<>>

Read_form_method ==
    /\ Returns("get_form_method", None, get_form_method.val, get_form_method.exc)
    /\ UNCHANGED <<helperVars, formVars>>

Read_form_action ==
    /\ Returns("get_form_action", None, get_form_action.val, get_form_action.exc)
    /\ UNCHANGED <<helperVars, formVars>>

Read_form_style ==
    /\ Returns("get_form_style", None, get_form_style.val, get_form_style.exc)
    /\ UNCHANGED <<helperVars, formVars>>

\* the setter storing the value as given instead of lower-cased
set_form_method_as_given(method) ==
    /\ IF lower(method) \notin {s_get, s_post}
       THEN /\ Returns("set_form_method", method, None, "FormHelpersException")
            /\ UNCHANGED _form_method
       ELSE /\ _form_method' = method
            /\ Returns("set_form_method", method, None, NoExc)
    /\ UNCHANGED <<_form_action, _form_style, form_id, form_class, inputs, layout,
                   form_tag, form_error_title, formset_error_title, formVars>>

set_form_method(method) ==
    /\ IF lower(method) \notin {s_get, s_post}
       THEN /\ Returns("set_form_method", method, None, "FormHelpersException")
            /\ UNCHANGED _form_method
       ELSE /\ _form_method' = lower(method)
            /\ Returns("set_form_method", method, None, NoExc)
    /\ UNCHANGED <<_form_action, _form_style, form_id, form_class, inputs, layout,
                   form_tag, form_error_title, formset_error_title, formVars>>

set_form_action(action) ==
    /\ _form_action' = action
    /\ Returns("set_form_action", None, None, NoExc)
    /\ UNCHANGED <<_form_method, _form_style, form_id, form_class, inputs, layout,
                   form_tag, form_error_title, formset_error_title, formVars>>

set_form_style(style) ==
    /\ IF lower(style) \notin {s_default, s_inline}
       THEN /\ Returns("set_form_style", style, None, "FormHelpersException")
            /\ UNCHANGED _form_style
       ELSE /\ _form_style' = lower(style)
            /\ Returns("set_form_style", style, None, NoExc)
    /\ UNCHANGED <<_form_method, _form_action, form_id, form_class, inputs, layout,
                   form_tag, form_error_title, formset_error_title, formVars>>

add_input(input_object) ==
    /\ Len(inputs) < MaxInputs
    /\ inputs' = Append(inputs, input_object)
    /\ Returns("add_input", None, None, NoExc)
    /\ UNCHANGED <<_form_method, _form_action, _form_style, form_id, form_class, layout,
                   form_tag, form_error_title, formset_error_title, formVars>>

\* helper.form_id = v
Assign_form_id(v) ==
    /\ form_id' = v
    /\ Returns("form_id=", None, None, NoExc)
    /\ UNCHANGED <<_form_method, _form_action, _form_style, form_class, inputs, layout,
                   form_tag, form_error_title, formset_error_title, formVars>>

\* helper.form_class = v
Assign_form_class(v) ==
    /\ form_class' = v
    /\ Returns("form_class=", None, None, NoExc)
    /\ UNCHANGED <<_form_method, _form_action, _form_style, form_id, inputs, layout,
                   form_tag, form_error_title, formset_error_title, formVars>>

\* helper.form_tag = v
Assign_form_tag(v) ==
    /\ form_tag' = v
    /\ Returns("form_tag=", None, None, NoExc)
    /\ UNCHANGED <<_form_method, _form_action, _form_style, form_id, form_class, inputs,
                   layout, form_error_title, formset_error_title, formVars>>

\* helper.form_error_title = v
Assign_form_error_title(v) ==
    /\ form_error_title' = v
    /\ Returns("form_error_title=", None, None, NoExc)
    /\ UNCHANGED <<_form_method, _form_action, _form_style, form_id, form_class, inputs,
                   layout, form_tag, formset_error_title, formVars>>

\* helper.formset_error_title = v
Assign_formset_error_title(v) ==
    /\ formset_error_title' = v
    /\ Returns("formset_error_title=", None, None, NoExc)
    /\ UNCHANGED <<_form_method, _form_action, _form_style, form_id, form_class, inputs,
                   layout, form_tag, form_error_title, formVars>>

\* items[k] = v when cond holds
Item(cond, k, v) == IF cond THEN (k :> v) ELSE EmptyDict

\* get_attributes testing form_id against None instead of for truth
attributes_id_not_none ==
    LET m == get_form_method
        st == get_form_style
        a == get_form_action
    IN  [exc |-> NoExc,
         val |-> ("form_method" :> strip(m.val))
                 @@ ("form_tag" :> form_tag)
                 @@ ("form_style" :> strip(st.val))
                 @@ Item(Truthy(a.val), "form_action", strip(a.val))
                 @@ Item(form_id # None, "id", strip(form_id))
                 @@ Item(Truthy(form_class), "class", strip(form_class))
                 @@ Item(Truthy(inputs), "inputs", inputs)
                 @@ Item(Truthy(form_error_title), "form_error_title",
                         strip(form_error_title))
                 @@ Item(Truthy(formset_error_title), "formset_error_title",
                         strip(formset_error_title))]

\* the dict get_attributes builds, or the exception that interrupts it
attributes ==
    LET m == get_form_method
        st == get_form_style
        a == get_form_action
    IN  IF m.exc # NoExc THEN [exc |-> m.exc, val |-> EmptyDict]
        ELSE IF st.exc # NoExc THEN [exc |-> st.exc, val |-> EmptyDict]
        ELSE IF st.val = None THEN [exc |-> "AttributeError", val |-> EmptyDict]
        ELSE IF a.exc # NoExc THEN [exc |-> a.exc, val |-> EmptyDict]
        ELSE [exc |-> NoExc,
              val |-> ("form_method" :> strip(m.val))
                      @@ ("form_tag" :> form_tag)
                      @@ ("form_style" :> strip(st.val))
                      @@ Item(Truthy(a.val), "form_action", strip(a.val))
                      @@ Item(Truthy(form_id), "id", strip(form_id))
                      @@ Item(Truthy(form_class), "class", strip(form_class))
                      @@ Item(Truthy(inputs), "inputs", inputs)
                      @@ Item(Truthy(form_error_title), "form_error_title",
                              strip(form_error_title))
                      @@ Item(Truthy(formset_error_title), "formset_error_title",
                              strip(formset_error_title))]

get_attributes ==
    /\ op' = "get_attributes"
    /\ arg' = None
    /\ ret' = None
    /\ exc' = attributes.exc
    /\ items' = attributes.val
    /\ html' = <<>>
    /\ UNCHANGED <<helperVars, formVars>>

----------------------------------------------------------------------------
(* The helper as constructed: the class attributes, with inputs copied *)

HelperInit ==
    /\ _form_method = s_post
    /\ _form_action = s_empty
    /\ _form_style = s_default
    /\ form_id = s_empty
    /\ form_class = s_empty
    /\ inputs = <<>>
    /\ form_tag = TRUE
    /\ form_error_title = None
    /\ formset_error_title = None

CallInit ==
    /\ op = "__init__"
    /\ arg = None
    /\ ret = None
    /\ items = EmptyDict
    /\ html = <<>>
    /\ exc = NoExc

Init ==
    /\ HelperInit
    /\ CallInit
    /\ layout = NoLayout
    /\ FAIL_SILENTLY = TRUE
    /\ form_fields = <<>>
    /\ rendered_fields = <<>>

Next ==
    \/ Read_form_method
    \/ Read_form_action
    \/ Read_form_style
    \/ \E method \in MethodArgs : set_form_method(method)
    \/ \E action \in ActionArgs : set_form_action(action)
    \/ \E style \in StyleArgs : set_form_style(style)
    \/ \E input_object \in InputObjects : add_input(input_object)
    \/ \E v \in IdArgs : Assign_form_id(v)
    \/ \E v \in ClassArgs : Assign_form_class(v)
    \/ \E v \in BOOLEAN : Assign_form_tag(v)
    \/ \E v \in TitleArgs : Assign_form_error_title(v)
    \/ \E v \in FormsetTitleArgs : Assign_formset_error_title(v)
    \/ get_attributes

Spec == Init /\ [][Next]_vars

----------------------------------------------------------------------------
(* Layout objects.  A node is a field name (kind "str") or a layout object. *)

FieldNames == {"a", "b"}
NonAsciiNames == {"n~"}          \* stands for a name with a non-ASCII character
\* "Div" stands for Div, Row and Column, which differ in their css_class only
ContainerKinds == {"ButtonHolder", "Layout", "Fieldset", "MultiField", "Div"}

Name(n) == [kind |-> "str", name |-> n, fields |-> <<>>]
HTML == [kind |-> "HTML", name |-> "", fields |-> <<>>]
Container(kind, fields) == [kind |-> kind, name |-> "", fields |-> fields]

Leaves == {Name(n) : n \in FieldNames \cup NonAsciiNames} \cup {HTML}

RECURSIVE Size(_)
Size(node) ==
    LET RECURSIVE Sum(_)
        Sum(i) == IF i > Len(node.fields) THEN 0 ELSE Size(node.fields[i]) + Sum(i + 1)
    IN  1 + Sum(1)

\* Trees(n): the nodes made of at most n objects; Forests(n): the argument
\* lists of a constructor that hold at most n objects in all
RECURSIVE Trees(_), Forests(_)
Trees(n) ==
    IF n = 0 THEN {}
    ELSE Leaves \cup {Container(k, fs) : k \in ContainerKinds, fs \in Forests(n - 1)}
Forests(n) ==
    IF n = 0 THEN {<<>>}
    ELSE {<<>>} \cup
         UNION {{<<t>> \o f : f \in Forests(n - Size(t))} : t \in Trees(n)}

\* Layout(*fields), holding at most n objects
Layouts(n) == {Container("Layout", fs) : fs \in Forests(n)}

\* the forms rendered: form.fields.keys()
Forms == {<<"b", "a">>, <<"b">>}

Range(q) == {q[i] : i \in 1..Len(q)}

Token(t, n) == [t |-> t, n |-> n]
Tokens(t, names) == [i \in 1..Len(names) |-> Token(t, names[i])]

\* what a render call leaves: its markup, form.rendered_fields, the exception
\* raised, and the bound fields it stored on the enclosing layout object
Result(h, rf, e, bound) == [html |-> h, rf |-> rf, exc |-> e, bound |-> bound]

hasattr_render(field) == field.kind # "str"

RECURSIVE render_field(_, _, _, _, _), render(_, _, _), render_fields(_, _, _, _, _)

\* for field in fields: html += render_field(field, ...)
render_fields(fields, rf, form_style, template, layout_object) ==
    IF fields = <<>> THEN Result(<<>>, rf, NoExc, <<>>)
    ELSE LET first == render_field(Head(fields), rf, form_style, template, layout_object)
         IN  IF first.exc # NoExc THEN first
             ELSE LET rest == render_fields(Tail(fields), first.rf, form_style, template,
                                            layout_object)
                  IN  IF rest.exc # NoExc THEN rest
                      ELSE Result(first.html \o rest.html, rest.rf, NoExc,
                                  first.bound \o rest.bound)

ButtonHolder_render(self, rf, form_style) ==
    LET r == render_fields(self.fields, rf, form_style, "uni_form/field.html", FALSE)
    IN  IF r.exc # NoExc THEN r
        ELSE Result(<<Token("<div>", "buttonHolder")>> \o r.html \o <<Token("</div>", "")>>,
                    r.rf, NoExc, <<>>)

Layout_render(self, rf, form_style) ==
    LET r == render_fields(self.fields, rf, form_style, "uni_form/field.html", FALSE)
    IN  IF r.exc # NoExc THEN r ELSE Result(r.html, r.rf, NoExc, <<>>)

Fieldset_render(self, rf, form_style) ==
    LET r == render_fields(self.fields, rf, form_style, "uni_form/field.html", FALSE)
    IN  IF r.exc # NoExc THEN r
        ELSE Result(<<Token("<fieldset>", form_style), Token("<legend>", "")>>
                        \o r.html \o <<Token("</fieldset>", "")>>,
                    r.rf, NoExc, <<>>)

MultiField_render(self, rf, form_style) ==
    LET r == render_fields(self.fields, rf, form_style, "uni_form/multifield.html", TRUE)
    IN  IF r.exc # NoExc THEN r
        ELSE Result(<<Token("<div>", "ctrlHolder")>> \o Tokens("errorField", r.bound)
                        \o <<Token("<div>", "multiField")>> \o r.html
                        \o <<Token("</div>", "")>> \o Tokens("formHint", r.bound)
                        \o <<Token("</div>", "")>>,
                    r.rf, NoExc, <<>>)

Div_render(self, rf, form_style) ==
    LET r == render_fields(self.fields, rf, form_style, "uni_form/field.html", FALSE)
    IN  IF r.exc # NoExc THEN r
        ELSE Result(<<Token("<div>", "")>> \o r.html \o <<Token("</div>", "")>>,
                    r.rf, NoExc, <<>>)

HTML_render(self, rf, form_style) == Result(<<Token("html", "")>>, rf, NoExc, <<>>)

\* field.render(form, form_style, context)
render(field, rf, form_style) ==
    CASE field.kind = "ButtonHolder" -> ButtonHolder_render(field, rf, form_style)
      [] field.kind = "Layout" -> Layout_render(field, rf, form_style)
      [] field.kind = "Fieldset" -> Fieldset_render(field, rf, form_style)
      [] field.kind = "MultiField" -> MultiField_render(field, rf, form_style)
      [] field.kind = "Div" -> Div_render(field, rf, form_style)
      [] field.kind = "HTML" -> HTML_render(field, rf, form_style)

\* render_field appending the name whether or not it was rendered before
render_field_always_appends(field, rf, form_style, template, layout_object) ==
    IF hasattr_render(field) THEN render(field, rf, form_style)
    ELSE IF field.name \in NonAsciiNames THEN Result(<<>>, rf, "Exception", <<>>)
    ELSE LET resolved == field.name \in Range(form_fields)
         IN  IF ~resolved /\ ~FAIL_SILENTLY THEN Result(<<>>, rf, "Exception", <<>>)
             ELSE IF field.name \in Range(rf) /\ ~FAIL_SILENTLY
                  THEN Result(<<>>, rf, "Exception", <<>>)
             ELSE Result(IF resolved THEN <<Token(template, field.name)>> ELSE <<>>,
                         Append(rf, field.name),
                         NoExc,
                         IF resolved /\ layout_object THEN <<field.name>> ELSE <<>>)

\* a layout object renders itself; a name is converted to str, resolved in
\* form.fields, recorded in form.rendered_fields and rendered with the template.
\* When failing silently the two error cases only log a warning, which is not
\* part of the result.
render_field(field, rf, form_style, template, layout_object) ==
    IF hasattr_render(field) THEN render(field, rf, form_style)
    ELSE IF field.name \in NonAsciiNames THEN Result(<<>>, rf, "Exception", <<>>)
    ELSE LET resolved == field.name \in Range(form_fields)
         IN  IF ~resolved /\ ~FAIL_SILENTLY THEN Result(<<>>, rf, "Exception", <<>>)
             ELSE IF field.name \in Range(rf) /\ ~FAIL_SILENTLY
                  THEN Result(<<>>, rf, "Exception", <<>>)
             ELSE Result(IF resolved THEN <<Token(template, field.name)>> ELSE <<>>,
                         IF field.name \notin Range(rf) THEN Append(rf, field.name) ELSE rf,
                         NoExc,
                         IF resolved /\ layout_object THEN <<field.name>> ELSE <<>>)

\* for field in form.fields.keys(): if not field in form.rendered_fields: render it
RECURSIVE render_remaining(_, _, _)
render_remaining(keys, rf, form_style) ==
    IF keys = <<>> THEN Result(<<>>, rf, NoExc, <<>>)
    ELSE IF Head(keys) \in Range(rf) THEN render_remaining(Tail(keys), rf, form_style)
    ELSE LET first == render_field(Name(Head(keys)), rf, form_style,
                                   "uni_form/field.html", FALSE)
         IN  IF first.exc # NoExc THEN first
             ELSE LET rest == render_remaining(Tail(keys), first.rf, form_style)
                  IN  IF rest.exc # NoExc THEN rest
                      ELSE Result(first.html \o rest.html, rest.rf, NoExc, <<>>)

\* the result of render_layout once form.rendered_fields has been emptied
layout_rendered ==
    IF layout = NoLayout THEN Result(<<>>, <<>>, "AttributeError", <<>>)
    ELSE LET st == get_form_style
             body == render(layout, <<>>, st.val)
         IN  IF st.exc # NoExc THEN Result(<<>>, <<>>, st.exc, <<>>)
             ELSE IF body.exc # NoExc THEN body
             ELSE LET tail == render_remaining(form_fields, body.rf, st.val)
                  IN  IF tail.exc # NoExc THEN tail
                      ELSE Result(body.html \o tail.html, tail.rf, NoExc, <<>>)

render_layout ==
    /\ op' = "render_layout"
    /\ arg' = None
    /\ ret' = None
    /\ items' = EmptyDict
    /\ rendered_fields' = layout_rendered.rf
    /\ html' = layout_rendered.html
    /\ exc' = layout_rendered.exc
    /\ UNCHANGED <<helperVars, FAIL_SILENTLY, form_fields>>

\* a helper as add_layout(layout) leaves it, and a form that has not been rendered
RenderInit ==
    /\ HelperInit
    /\ CallInit
    /\ layout \in Layouts(MaxNodes)
    /\ FAIL_SILENTLY \in BOOLEAN
    /\ form_fields \in Forms
    /\ rendered_fields = <<>>

RenderNext == render_layout

RenderSpec == RenderInit /\ [][RenderNext]_vars

----------------------------------------------------------------------------
(* Properties of the helper *)

\* an attribute that is neither None nor of length zero
NonEmpty(v) == v # None /\ Len(v) > 0

\* C1: form_method reads 'post' on a new helper; a set to GET or POST in any
\* letter case stores the lower-cased value, any other set raises
\* FormHelpersException and leaves the stored method as it was; the getter
\* therefore always returns 'get' or 'post'.
C1_form_method ==
    /\ [](/\ op = "__init__" => get_form_method.val = s_post
          /\ get_form_method.val \in {s_get, s_post}
          /\ op = "get_form_method" => exc = NoExc /\ ret \in {s_get, s_post})
    /\ [][op' = "set_form_method" =>
            IF lower(arg') \in {s_get, s_post}
            THEN exc' = NoExc /\ _form_method' = lower(arg')
            ELSE exc' = "FormHelpersException" /\ _form_method' = _form_method]_vars

\* a rejected set after an accepted one that changed the default
C1_witness ==
    /\ op = "set_form_method"
    /\ exc = "FormHelpersException"
    /\ _form_method = s_get

\* C2: form_style is "default" on a new helper; a set to default or inline in
\* any letter case is stored lower-cased, any other set raises
\* FormHelpersException and leaves the style as it was; the getter returns ''
\* for default and 'inlineLabels' for inline, never None.
C2_form_style ==
    /\ [](/\ op = "__init__" => _form_style = s_default
          /\ get_form_style.val # None
          /\ get_form_style.val = s_empty <=> _form_style = s_default
          /\ get_form_style.val = s_inlineLabels <=> _form_style = s_inline
          /\ op = "get_form_style" =>
                /\ exc = NoExc
                /\ ret = (IF _form_style = s_default THEN s_empty ELSE s_inlineLabels))
    /\ [][op' = "set_form_style" =>
            IF lower(arg') \in {s_default, s_inline}
            THEN exc' = NoExc /\ _form_style' = lower(arg')
            ELSE exc' = "FormHelpersException" /\ _form_style' = _form_style]_vars

\* the getter read after a mixed-case set to inline
C2_witness ==
    /\ op = "get_form_style"
    /\ _form_style = s_inline
    /\ ret = s_inlineLabels

\* C3: reading form_action returns the reversed URL when the stored action is
\* a name the URLconf knows and the stored string itself otherwise; it raises
\* nothing and leaves the stored action as it was.
C3_form_action ==
    /\ [](op = "get_form_action" =>
            /\ exc # "NoReverseMatch"
            /\ ret = (IF _form_action \in DOMAIN urlpatterns
                      THEN urlpatterns[_form_action]
                      ELSE _form_action))
    /\ [][op' = "get_form_action" => _form_action' = _form_action]_vars

\* a read of an action that is a URL, which the URLconf cannot reverse
C3_witness ==
    /\ op = "get_form_action"
    /\ _form_action = <<"/","w","/"," ">>
    /\ ret = <<"/","w","/"," ">>

\* C4: get_attributes returns form_method, form_tag and form_style always and
\* each optional key exactly when its attribute is non-empty, and changes no
\* helper attribute.
C4_get_attributes ==
    /\ [](op = "get_attributes" =>
            /\ exc = NoExc
            /\ {"form_method", "form_tag", "form_style"} \subseteq DOMAIN items
            /\ DOMAIN items \subseteq
                  {"form_method", "form_tag", "form_style", "form_action", "id", "class",
                   "inputs", "form_error_title", "formset_error_title"}
            /\ "form_action" \in DOMAIN items <=> NonEmpty(get_form_action.val)
            /\ "id" \in DOMAIN items <=> NonEmpty(form_id)
            /\ "class" \in DOMAIN items <=> NonEmpty(form_class)
            /\ "inputs" \in DOMAIN items <=> NonEmpty(inputs)
            /\ "form_error_title" \in DOMAIN items <=> NonEmpty(form_error_title)
            /\ "formset_error_title" \in DOMAIN items <=> NonEmpty(formset_error_title))
    /\ [][op' = "get_attributes" => helperVars' = helperVars]_vars

\* no form_id was provided, and another optional attribute was
C4_witness ==
    /\ op = "get_attributes"
    /\ form_id = s_empty
    /\ "id" \notin DOMAIN items
    /\ "class" \in DOMAIN items

----------------------------------------------------------------------------
(* Properties of the rendering *)

FieldTemplates == {"uni_form/field.html", "uni_form/multifield.html"}

\* how many times the markup of the field is in the output
Emitted(name) ==
    Cardinality({i \in DOMAIN html : html[i].t \in FieldTemplates /\ html[i].n = name})

\* the field names of a layout tree, depth first and left to right
RECURSIVE Preorder(_)
Preorder(node) ==
    LET RECURSIVE Children(_)
        Children(i) ==
            IF i > Len(node.fields) THEN <<>>
            ELSE Preorder(node.fields[i]) \o Children(i + 1)
    IN  IF node.kind = "str" THEN <<node.name>> ELSE Children(1)

\* the first occurrence of each element, in order
FirstOccurrences(q) ==
    LET RECURSIVE Keep(_)
        Keep(i) ==
            IF i > Len(q) THEN <<>>
            ELSE IF \E j \in 1..(i - 1) : q[j] = q[i] THEN Keep(i + 1)
            ELSE <<q[i]>> \o Keep(i + 1)
    IN  Keep(1)

\* C5: in one render_layout pass no field has its markup emitted twice,
\* whatever the layout tree contains.
C5_never_rendered_twice ==
    (op = "render_layout" /\ exc = NoExc) =>
        \A name \in FieldNames : Emitted(name) <= 1

\* C6: render_field on an item that has a render method returns that item's
\* render result and records nothing itself, and containers render their
\* children in declared order: when render_layout returns, form.rendered_fields
\* holds the layout's field names in depth-first, left-to-right order of first
\* occurrence, followed by the form's fields that the layout does not name.
C6_rendered_in_layout_order ==
    (op = "render_layout" /\ exc = NoExc) =>
        /\ rendered_fields = FirstOccurrences(Preorder(layout) \o form_fields)
        /\ \A i \in DOMAIN layout.fields :
              LET item == layout.fields[i]
                  r == render_field(item, <<>>, s_empty, "uni_form/field.html", FALSE)
              IN  hasattr_render(item) =>
                      /\ r = render(item, <<>>, s_empty)
                      /\ r.rf = FirstOccurrences(Preorder(item))

\* a Div holding a field is followed by a field the form lists first, and
\* the rendering recorded them in the layout's order
C6_witness ==
    /\ op = "render_layout"
    /\ exc = NoExc
    /\ form_fields = <<"b", "a">>
    /\ Len(layout.fields) = 2
    /\ layout.fields[1].kind = "Div"
    /\ rendered_fields = <<"a", "b">>

====
